---- MODULE Spec2Model ----
(***************************************************************************)
(* Order-placement saga of the ECI order service                           *)
(* (Scalable_Services_Assignment_Orders_Services_PS4/                      *)
(* enhanced_order_service.py): place_order and cancel_order, the order     *)
(* database they write to, and the inventory service they call.            *)
(*                                                                         *)
(* Each place_order request is a process whose program counter stands      *)
(* between two round trips (database statement or HTTP call).              *)
(* cancel_order is one step. Money is counted in ten-thousandths of a      *)
(* currency unit.                                                          *)
(*                                                                         *)
(* The order tables (their DDL is not part of the sources) and the         *)
(* inventory service are modelled from the service's specification.        *)
(*                                                                         *)
(* Spec      two concurrent requests of one item each, cancellations       *)
(* SpecSeq   two requests served one after the other, cancellations, TTL   *)
(* SpecSolo  one request of up to MaxItems items, cancellations, TTL       *)
(* SpecDispatch  one request of one item, cancellations, TTL, failing      *)
(*           lookup, notification and shipment calls                       *)
(* SpecDispatchFair  SpecDispatch where the request keeps running          *)
(* SpecDispatchTTL   SpecDispatchFair where every TTL runs out             *)
(* SpecRead  one request of one item, cancellations, GET /orders and       *)
(*           GET /orders/{order_id}                                        *)
(* SpecDemo  the client workflow of enhanced-workflow-demo.py against      *)
(*           the order service, with DemoStock units of each product       *)
(* SpecShipment  the shipment service (Shipment_Services main.py)          *)
(***************************************************************************)
EXTENDS Integers, Sequences, FiniteSets, TLC

\* ----------------------------------------------------------------- bounds
\* items of a request that runs alone
MaxItems == 3
InitStock == 1
MaxExpiries == 1
\* stock of each product when the demo workflow runs
DemoStock == 4

\* ------------------------------------------------------ program constants
UnitPrice == 299900
TaxRatePercent == 5
ShippingCost == 100000
MaxMySqlInt == 2147483647

\* ------------------------------------------------------------ input sets
Requests == {"r1", "r2"}
Products == {1, 2}
Quantities == {1, 2}
Customers == {7}
None == "None"
HeaderKeys == {None, "k1"}
BodyKeys == {None, "k2"}
\* int(time.time() * 1000) as read by the requests, written <<q, m>> for the
\* millisecond q * MaxMySqlInt + m with m < MaxMySqlInt (the value itself
\* exceeds the 32-bit integers of the model checker); the last value is
\* MaxMySqlInt milliseconds after the first
\* the first request reads the first
ClockValues == {<<0, 1000>>, <<0, 1001>>, <<1, 1000>>}
NotBefore(t, u) == t[1] > u[1] \/ (t[1] = u[1] /\ t[2] >= u[2])

Uuid(r) == IF r = "r1" THEN "u1" ELSE "u2"
\* enhanced-workflow-demo.py line 74: the uuid of the demo workflow, and the
\* prefix f"{idempotency_key}_product" of its reservation keys (line 117)
DemoKey == "d1"
DemoReserveKey == "d1_product"
Keys == (HeaderKeys \cup BodyKeys \cup {Uuid(r) : r \in Requests}
         \cup {DemoKey, DemoReserveKey}) \ {None}

Item == [product_id : Products, sku : {"SKU"}, quantity : Quantities]
\* (items: List[OrderItem] admits the empty list)
ItemLists == UNION {[1..n -> Item] : n \in 0..MaxItems}
\* concurrent requests order one item each
SingleItemLists == {<<item>> : item \in Item}

\* ------------------------------------------------------------------ state
VARIABLES
    pc,               \* position of each place_order request
    req,              \* order_request and the Idempotency-Key header
    idempotency_key,  \* the key the request works with (lines 98-103)
    order_id,         \* line 118
    reservations,     \* list of release payloads of the granted items
    order_items,      \* list of the lines to insert
    total_amount,     \* running subtotal
    payment_success,  \* line 215/220
    pending,          \* rows written by the request's open transaction
    result,           \* what place_order returned (status code, body)
    reserveCalls,     \* number of POST /inventory/reserve of the request
    releaseCalls,     \* POST /inventory/release payloads of the request
    grantedAt,        \* history: keys the inventory service granted to it
    notifyCalls,      \* number of POST /notifications of the request
    shipmentCalls,    \* number of POST /shipments of the request
    dispatchFailed,   \* history: which of these two calls failed
    wrote,            \* history: requests whose transaction was committed
    Orders,           \* committed rows of table Orders
    Order_Items,      \* committed rows of table Order_Items, insertion order
    inventory,        \* the inventory service: stock and reservations
    now,              \* last value read from the clock
    expiries,         \* number of reservations the inventory service expired
    cancelResponse,   \* response of cancel_order in the state it returns to,
                      \* NoCancel in every other state
    readResponse,     \* response of get_order_by_id or get_orders in the
                      \* state it returns to, NoRead in every other state
    demo,             \* demonstrate_place_order_workflow: its position,
                      \* available_items, reservations, the release payloads
                      \* it sent and what it returned
    Shipments,        \* shipment service: committed rows of table Shipments
    shipmentResponse  \* shipment service: the last response

locals == <<req, idempotency_key, order_id, reservations, order_items,
            total_amount, payment_success>>
calls == <<reserveCalls, releaseCalls, grantedAt, notifyCalls, shipmentCalls,
           dispatchFailed>>
store == <<Orders, Order_Items, wrote>>
vars == <<pc, locals, pending, result, calls, store, inventory, now, expiries,
         cancelResponse, readResponse, demo, Shipments, shipmentResponse>>
shipmentService == <<Shipments, shipmentResponse>>

NoResult == [status |-> 0, idempotent |-> FALSE, order_id |-> 0, detail |-> "none",
             order_status |-> "none"]
NoTx == [orders |-> {}, items |-> <<>>]
NoCancel == [order_id |-> 0, status |-> 0, releaseCalls |-> <<>>]
NoRead == [op |-> "none", order_id |-> 0, status |-> 0, detail |-> "none",
           orders |-> {}, items |-> <<>>]
NoDemo == [pc |-> "start", available_items |-> <<>>, reservations |-> <<>>,
           releaseCalls |-> <<>>, returned |-> "none"]
NoShipmentResponse == [op |-> "none", shipment_id |-> 0, status |-> 0, detail |-> "none"]
NoRequest == [customer_id |-> 0, items |-> <<>>, header |-> None, body |-> None]

\* a step of place_order or of the inventory service: no response of
\* cancel_order or of a read
NotCancel ==
    cancelResponse' = NoCancel /\ readResponse' = NoRead
        /\ UNCHANGED <<expiries, demo, shipmentService>>

\* ------------------------------------------------------- pure functions

\* EffectiveKey with the body's key first
EffectiveKeyBodyFirst(header, body, uuid) ==
    IF body # None THEN body
    ELSE IF header # None THEN header
    ELSE uuid

\* lines 98-103: header first, then the body's key, then a fresh uuid
EffectiveKey(header, body, uuid) ==
    IF header # None THEN header
    ELSE IF body # None THEN body
    ELSE uuid

\* line 134 / line 367: f"{idempotency_key}_{product_id}"; the product id is
\* an integer, so the string determines the pair
ReservationKey(key, product_id) == <<key, product_id>>

ReservationKeys == Keys \X Products

\* line 118
OrderIdAt(t) == t[2] % MaxMySqlInt

\* TaxOf that taxes the shipping cost too
TaxOfWithShipping(subtotal) == ((subtotal + ShippingCost) * TaxRatePercent) \div 100

\* lines 193-196: the amounts are the code's floats to four decimals (for the
\* prices and quantities drawn here the floats lie within 1e-12 of them)
TaxOf(subtotal) == (subtotal * TaxRatePercent) \div 100
TotalOf(subtotal) == subtotal + TaxOf(subtotal) + ShippingCost

\* TotalsSignature that signs the total alone
TotalsSignatureOfTotal(subtotal, tax, shipping, total) ==
    <<"total", total>>

\* lines 199-205: sha256 of the JSON object with sorted keys
\* (shipping, subtotal, tax, total), modelled by the encoded tuple
TotalsSignature(subtotal, tax, shipping, total) ==
    <<"shipping", shipping, "subtotal", subtotal, "tax", tax, "total", total>>

\* FindByKey with the lookup narrowed to the orders that are still CONFIRMED
FindConfirmedByKey(key) ==
    {o \in Orders : o.idempotency_key = key /\ o.order_status = "CONFIRMED"}

\* FindByKey that passes over the orders that were cancelled
FindActiveByKey(key) ==
    {o \in Orders : o.idempotency_key = key /\ o.order_status # "CANCELLED"}

\* line 110
FindByKey(key) == {o \in Orders : o.idempotency_key = key}

\* ------------------------------------------- the inventory service (remote)
\* inventory.stock[p] is the free stock of product p; inventory.resv[k] is
\* the reservation stored under idempotency key k.
NoReservation == [status |-> "NONE", quantity |-> 0, order_id |-> 0]

\* POST /inventory/reserve. A key that already has a reservation returns the
\* first outcome again and decrements nothing.
InvReserve(inv, data) ==
    LET k == data.idempotency_key
        p == data.product_id
    IN  IF inv.resv[k].status # "NONE"
        THEN [inventory |-> inv, granted |-> TRUE]
        ELSE IF inv.stock[p] >= data.quantity
        THEN [inventory |->
                [stock |-> [inv.stock EXCEPT ![p] = @ - data.quantity],
                 resv |-> [inv.resv EXCEPT ![k] =
                             [status |-> "RESERVED",
                              quantity |-> data.quantity,
                              order_id |-> data.order_id]]],
              granted |-> TRUE]
        ELSE [inventory |-> inv, granted |-> FALSE]

\* a RESERVED reservation leaves that state and its quantity returns to stock
InvClose(inv, k, status) ==
    IF inv.resv[k].status = "RESERVED"
    THEN [stock |-> [inv.stock EXCEPT ![k[2]] = @ + inv.resv[k].quantity],
          resv |-> [inv.resv EXCEPT ![k].status = status]]
    ELSE inv

\* POST /inventory/release: a no-op unless the reservation is RESERVED
InvRelease(inv, data) == InvClose(inv, data.idempotency_key, "RELEASED")

\* The "for ... : try: requests.post(release) except: pass" loops (lines
\* 163-171, 180-188, 225-233, 239-247, 325-333, 364-376): one call per list
\* entry, in order; the calls whose index is not in delivered never reach the
\* service (the exception is swallowed).
RECURSIVE ReleaseEach(_, _, _, _)
ReleaseEach(inv, payloads, delivered, i) ==
    IF i > Len(payloads) THEN inv
    ELSE ReleaseEach(IF i \in delivered THEN InvRelease(inv, payloads[i]) ELSE inv,
                     payloads, delivered, i + 1)

ReleaseAll(inv, payloads, delivered) == ReleaseEach(inv, payloads, delivered, 1)

\* Expire of a service whose TTL leaves the reservation as it is
ExpireKeepsReserved(k) ==
    /\ expiries < MaxExpiries
    /\ inventory.resv[k].status = "RESERVED"
    /\ inventory' = inventory
    /\ expiries' = expiries + 1
    /\ cancelResponse' = NoCancel
    /\ readResponse' = NoRead
    /\ UNCHANGED <<pc, locals, pending, result, calls, store, now, demo, shipmentService>>

\* the reservation's TTL runs out
Expire(k) ==
    /\ expiries < MaxExpiries
    /\ inventory.resv[k].status = "RESERVED"
    /\ inventory' = InvClose(inventory, k, "EXPIRED")
    /\ expiries' = expiries + 1
    /\ cancelResponse' = NoCancel
    /\ readResponse' = NoRead
    /\ UNCHANGED <<pc, locals, pending, result, calls, store, now, demo, shipmentService>>

\* ------------------------------------------------------ the order database
\* rows other transactions have written and not yet committed
OtherPending(r) == UNION {pending[q].orders : q \in Requests \ {r}}

\* Orders.order_id is the primary key
DuplicateId(rows, row) == \E o \in rows : o.order_id = row.order_id

\* DuplicateKey for a key column without the uniqueness constraint
NoDuplicateKey(rows, row) == FALSE

\* Orders.idempotency_key carries the uniqueness constraint
DuplicateKey(rows, row) == \E o \in rows : o.idempotency_key = row.idempotency_key

\* CommitTx that makes the order visible and leaves its lines behind
CommitTxOrderOnly(r) ==
    /\ Orders' = Orders \cup pending[r].orders
    /\ Order_Items' = Order_Items
    /\ wrote' = wrote \cup {r}
    /\ pending' = [pending EXCEPT ![r] = NoTx]

\* conn.commit(): the transaction's rows become visible together
CommitTx(r) ==
    /\ Orders' = Orders \cup pending[r].orders
    /\ Order_Items' = Order_Items \o pending[r].items
    /\ wrote' = wrote \cup {r}
    /\ pending' = [pending EXCEPT ![r] = NoTx]

\* RollbackTx on a connection that commits what was written so far
RollbackTxCommits(r) == CommitTx(r)

\* conn.rollback(), or conn.close() with an open transaction
RollbackTx(r) ==
    /\ pending' = [pending EXCEPT ![r] = NoTx]
    /\ UNCHANGED store

\* ------------------------------------------------------------ place_order
\* the response: its status code, the idempotent flag, the id and the status
\* of the order it carries (lines 115, 303-319) or the detail of the error
Respond(r, status, idempotent, id, detail, order_status) ==
    /\ pc' = [pc EXCEPT ![r] = "done"]
    /\ result' = [result EXCEPT ![r] =
                    [status |-> status, idempotent |-> idempotent,
                     order_id |-> id, detail |-> detail,
                     order_status |-> order_status]]

Done(r, status, idempotent, id, detail) ==
    Respond(r, status, idempotent, id, detail,
            IF status = 200 THEN "CONFIRMED" ELSE "none")

\* Compensate with the loop stopping one entry early
CompensateAllButLast(r, inv, status, detail) ==
    LET payloads == SubSeq(reservations[r], 1, Len(reservations[r]) - 1)
    IN  /\ \E delivered \in SUBSET (1..Len(payloads)) :
              inventory' = ReleaseAll(inv, payloads, delivered)
        /\ releaseCalls' = [releaseCalls EXCEPT ![r] = @ \o payloads]
        /\ Done(r, status, FALSE, 0, detail)
        /\ RollbackTx(r)

\* The compensation loops followed by raise HTTPException (lines 163-176,
\* 180-190, 225-235, 239-249, 325-336): one release call per entry of
\* reservations, failures swallowed, then the error response. The open
\* transaction ends without a commit (conn.rollback() or conn.close()).
Compensate(r, inv, status, detail) ==
    /\ \E delivered \in SUBSET (1..Len(reservations[r])) :
          inventory' = ReleaseAll(inv, reservations[r], delivered)
    /\ releaseCalls' = [releaseCalls EXCEPT ![r] = @ \o reservations[r]]
    /\ Done(r, status, FALSE, 0, detail)
    /\ RollbackTx(r)

\* lines 87-106: the request arrives, with its items out of lists and its body
\* key out of bodies
Submit(r, lists, bodies) ==
    /\ pc[r] = "idle"
    /\ NotCancel
    /\ \E c \in Customers, items \in lists, h \in HeaderKeys, b \in bodies :
          /\ req' = [req EXCEPT ![r] =
                       [customer_id |-> c, items |-> items, header |-> h, body |-> b]]
          /\ idempotency_key' = [idempotency_key EXCEPT ![r] = EffectiveKey(h, b, Uuid(r))]
    /\ pc' = [pc EXCEPT ![r] = "lookup"]
    /\ UNCHANGED <<order_id, reservations, order_items, total_amount, payment_success,
                   pending, result, calls, store, inventory, now>>

\* ReturnExisting that sends the confirmation again
ReturnExistingAndNotify(r, existing_order) ==
    /\ Respond(r, 200, TRUE, existing_order.order_id, "Order already exists",
               existing_order.order_status)
    /\ RollbackTx(r)
    /\ notifyCalls' = [notifyCalls EXCEPT ![r] = @ + 1]
    /\ UNCHANGED <<locals, reserveCalls, releaseCalls, grantedAt, shipmentCalls,
                   dispatchFailed, inventory, now>>

\* lines 112-115: the order exists, return it
ReturnExisting(r, existing_order) ==
    /\ Respond(r, 200, TRUE, existing_order.order_id, "Order already exists",
               existing_order.order_status)
    /\ RollbackTx(r)
    /\ UNCHANGED <<locals, calls, inventory, now>>

\* BeginSaga that first persists the order as PENDING
BeginSagaPersistsPending(r) ==
    /\ \E t \in ClockValues :
          /\ NotBefore(t, now)
          /\ (\A q \in Requests : order_id[q] = 0) => t = now
          /\ now' = t
          /\ order_id' = [order_id EXCEPT ![r] = OrderIdAt(t)]
          /\ Orders' = Orders \cup
                {[order_id |-> OrderIdAt(t), customer_id |-> req[r].customer_id,
                  order_status |-> "PENDING", payment_status |-> "UNPAID",
                  order_total |-> 0, subtotal |-> 0, tax_amount |-> 0,
                  shipping_amount |-> 0,
                  totals_signature |-> TotalsSignature(0, 0, 0, 0),
                  idempotency_key |-> idempotency_key[r]]}
    /\ pc' = [pc EXCEPT ![r] = IF Len(req[r].items) = 0 THEN "pay" ELSE "reserve"]
    /\ UNCHANGED <<req, idempotency_key, reservations, order_items, total_amount,
                   payment_success, pending, result, calls, Order_Items, wrote, inventory>>

\* lines 117-118: no order with the key, take an order id from the clock
BeginSaga(r) ==
    /\ \E t \in ClockValues :
          /\ NotBefore(t, now)
          /\ (\A q \in Requests : order_id[q] = 0) => t = now
          /\ now' = t
          /\ order_id' = [order_id EXCEPT ![r] = OrderIdAt(t)]
    /\ pc' = [pc EXCEPT ![r] = IF Len(req[r].items) = 0 THEN "pay" ELSE "reserve"]
    /\ UNCHANGED <<req, idempotency_key, reservations, order_items, total_amount,
                   payment_success, pending, result, calls, store, inventory>>

\* lines 108-118
Lookup(r) ==
    /\ pc[r] = "lookup"
    /\ NotCancel
    /\ LET existing == FindByKey(idempotency_key[r])
       IN  IF existing # {}
           THEN ReturnExisting(r, CHOOSE o \in existing : TRUE)
           ELSE BeginSaga(r)

\* lines 110, 321-340: the SELECT of the lookup raises an exception that is no
\* HTTPException. The handler of line 323 starts its loop over reservations,
\* a local that is first assigned at line 121: the read raises
\* UnboundLocalError inside the handler, conn.rollback() and the raise of
\* line 336 are not reached, the finally clause closes the connection and the
\* exception leaves place_order.
LookupFails(r) ==
    /\ pc[r] = "lookup"
    /\ NotCancel
    /\ Done(r, 500, FALSE, 0, "UnboundLocalError")
    /\ RollbackTx(r)
    /\ UNCHANGED <<locals, calls, inventory, now>>

\* How one POST /inventory/reserve can end at the caller:
\*   response      the service answered (200 when granted, else not 200)
\*   error         the service answered not 200 without looking at the request
\*   unreachable   requests.RequestException, the request never arrived
\*   timeout       requests.RequestException, the request was processed
\*   unreadable_r  200 whose body response.json() rejects with an exception
\*                 that is a requests.RequestException
\*   unreadable_v  the same, with an exception that is a plain ValueError
ReserveOutcomes ==
    {"response", "error", "unreachable", "timeout", "unreadable_r", "unreadable_v"}

\* lines 125-190: one pass of the reservation loop
ReserveItem(r) ==
    /\ pc[r] = "reserve"
    /\ NotCancel
    /\ LET item == req[r].items[Len(reservations[r]) + 1]
           reservation_data ==
               [product_id |-> item.product_id,
                quantity |-> item.quantity,
                idempotency_key |-> ReservationKey(idempotency_key[r], item.product_id),
                order_id |-> order_id[r]]
           call == InvReserve(inventory, reservation_data)
       IN  \E outcome \in ReserveOutcomes :
           LET processed == outcome \notin {"error", "unreachable"}
               inv == IF processed THEN call.inventory ELSE inventory
               granted == processed /\ call.granted
           IN  /\ outcome \in {"unreadable_r", "unreadable_v"} => granted
               /\ reserveCalls' = [reserveCalls EXCEPT ![r] = @ + 1]
               /\ grantedAt' = [grantedAt EXCEPT ![r] =
                     IF granted THEN @ \cup {reservation_data.idempotency_key} ELSE @]
               /\ UNCHANGED <<req, idempotency_key, order_id, payment_success,
                              notifyCalls, shipmentCalls, dispatchFailed, now>>
               /\ IF outcome = "response" /\ granted
                  THEN /\ inventory' = inv
                       /\ reservations' = [reservations EXCEPT ![r] =
                             Append(@, [idempotency_key |-> reservation_data.idempotency_key,
                                        order_id |-> order_id[r]])]
                       /\ order_items' = [order_items EXCEPT ![r] =
                             Append(@, [product_id |-> item.product_id, sku |-> item.sku,
                                        quantity |-> item.quantity,
                                        unit_price |-> UnitPrice])]
                       /\ total_amount' = [total_amount EXCEPT ![r] =
                             @ + UnitPrice * item.quantity]
                       /\ pc' = [pc EXCEPT ![r] =
                             IF Len(reservations[r]) + 1 = Len(req[r].items)
                             THEN "pay" ELSE "reserve"]
                       /\ UNCHANGED <<pending, result, releaseCalls, store>>
                  ELSE /\ UNCHANGED <<reservations, order_items, total_amount>>
                       /\ CASE outcome \in {"response", "error"} ->
                                 Compensate(r, inv, 409, "Failed to reserve inventory")
                            [] outcome \in {"unreachable", "timeout", "unreadable_r"} ->
                                 Compensate(r, inv, 503, "Inventory service unavailable")
                            [] outcome = "unreadable_v" ->
                                 Compensate(r, inv, 500, "Order processing failed")

\* lines 218-221: the payment is mocked and always approves
MockPaymentApproves == TRUE

\* lines 192-249: totals, signature, payment
Pay(r) ==
    /\ pc[r] = "pay"
    /\ NotCancel
    /\ payment_success' = [payment_success EXCEPT ![r] = MockPaymentApproves]
    /\ UNCHANGED <<req, idempotency_key, order_id, reservations, order_items, total_amount,
                   reserveCalls, grantedAt, notifyCalls, shipmentCalls, dispatchFailed,
                   now>>
    /\ IF MockPaymentApproves
       THEN /\ pc' = [pc EXCEPT ![r] = "insert"]
            /\ UNCHANGED <<pending, result, releaseCalls, store, inventory>>
       ELSE Compensate(r, inventory, 402, "Payment was declined")

\* OrderRow of an order that is written before its payment is known
OrderRowPending(r) ==
    LET subtotal == total_amount[r]
        tax_amount == TaxOf(subtotal)
        shipping_amount == ShippingCost
        total_with_tax_shipping == TotalOf(subtotal)
    IN  [order_id |-> order_id[r],
         customer_id |-> req[r].customer_id,
         order_status |-> "PENDING",
         payment_status |-> "PENDING",
         order_total |-> total_with_tax_shipping,
         subtotal |-> subtotal,
         tax_amount |-> tax_amount,
         shipping_amount |-> shipping_amount,
         totals_signature |->
             TotalsSignature(subtotal, tax_amount, shipping_amount, total_with_tax_shipping),
         idempotency_key |-> idempotency_key[r]]

\* OrderRow that stores the key the client sent, and none when place_order
\* generated the key
OrderRowClientKey(r) ==
    LET subtotal == total_amount[r]
        tax_amount == TaxOf(subtotal)
        shipping_amount == ShippingCost
        total_with_tax_shipping == TotalOf(subtotal)
    IN  [order_id |-> order_id[r],
         customer_id |-> req[r].customer_id,
         order_status |-> "CONFIRMED",
         payment_status |-> "PAID",
         order_total |-> total_with_tax_shipping,
         subtotal |-> subtotal,
         tax_amount |-> tax_amount,
         shipping_amount |-> shipping_amount,
         totals_signature |->
             TotalsSignature(subtotal, tax_amount, shipping_amount, total_with_tax_shipping),
         idempotency_key |-> req[r].header]

\* lines 252-259: the row of INSERT INTO Orders
OrderRow(r) ==
    LET subtotal == total_amount[r]
        tax_amount == TaxOf(subtotal)
        shipping_amount == ShippingCost
        total_with_tax_shipping == TotalOf(subtotal)
    IN  [order_id |-> order_id[r],
         customer_id |-> req[r].customer_id,
         order_status |-> "CONFIRMED",
         payment_status |-> "PAID",
         order_total |-> total_with_tax_shipping,
         subtotal |-> subtotal,
         tax_amount |-> tax_amount,
         shipping_amount |-> shipping_amount,
         totals_signature |->
             TotalsSignature(subtotal, tax_amount, shipping_amount, total_with_tax_shipping),
         idempotency_key |-> idempotency_key[r]]

\* lines 262-267: the rows of INSERT INTO Order_Items
ItemRows(r) ==
    [i \in 1..Len(order_items[r]) |->
        [order_id |-> order_id[r],
         product_id |-> order_items[r][i].product_id,
         sku |-> order_items[r][i].sku,
         quantity |-> order_items[r][i].quantity,
         unit_price |-> order_items[r][i].unit_price]]

\* a statement fails with an exception that is no HTTPException: lines 323-336
Fail500(r, detail) ==
    /\ Compensate(r, inventory, 500, detail)
    /\ UNCHANGED <<locals, reserveCalls, grantedAt, notifyCalls, shipmentCalls,
                   dispatchFailed, now>>

\* lines 252-267: INSERT INTO Orders, then one INSERT INTO Order_Items per
\* line. The first statement waits while another open transaction holds a row
\* with the same order id or key, and fails on a committed one.
InsertRows(r) ==
    /\ pc[r] = "insert"
    /\ NotCancel
    /\ ~DuplicateId(OtherPending(r), OrderRow(r))
    /\ ~DuplicateKey(OtherPending(r), OrderRow(r))
    /\ \E db \in {"ok", "error"} :
          IF DuplicateKey(Orders, OrderRow(r)) THEN Fail500(r, "Duplicate entry for key")
          ELSE IF DuplicateId(Orders, OrderRow(r)) THEN Fail500(r, "Duplicate entry for id")
          ELSE IF db = "error" THEN Fail500(r, "Database error")
          ELSE /\ pending' = [pending EXCEPT ![r] =
                                [orders |-> {OrderRow(r)}, items |-> ItemRows(r)]]
               /\ pc' = [pc EXCEPT ![r] = "commit"]
               /\ UNCHANGED <<locals, result, calls, store, inventory, now>>

\* line 269
Commit(r) ==
    /\ pc[r] = "commit"
    /\ NotCancel
    /\ \E db \in {"ok", "error"} :
          IF db = "error" THEN Fail500(r, "Database error")
          ELSE /\ CommitTx(r)
               /\ pc' = [pc EXCEPT ![r] = "notify"]
               /\ UNCHANGED <<locals, result, calls, inventory, now>>

\* How a POST to the notification or the shipment service can end: the
\* response (whatever its status code) is not looked at, an exception is
\* swallowed by the bare except.
DispatchOutcomes == {"ok", "error", "unreachable", "timeout"}

\* Notify where a failed call is handled as the failures before the commit are
NotifyOrFail(r, outcomes) ==
    /\ pc[r] = "notify"
    /\ NotCancel
    /\ notifyCalls' = [notifyCalls EXCEPT ![r] = @ + 1]
    /\ UNCHANGED <<locals, reserveCalls, grantedAt, shipmentCalls, now>>
    /\ \E outcome \in outcomes :
          /\ dispatchFailed' = [dispatchFailed EXCEPT ![r] =
                IF outcome = "ok" THEN @ ELSE @ \cup {"notify"}]
          /\ IF outcome = "ok"
             THEN /\ pc' = [pc EXCEPT ![r] = "shipment"]
                  /\ UNCHANGED <<pending, result, releaseCalls, store, inventory>>
             ELSE Compensate(r, inventory, 500, "Order processing failed")

\* Notify whose POST has no timeout: when the service does not answer, the
\* request waits for it
NotifyWithoutTimeout(r, outcomes) ==
    /\ pc[r] = "notify"
    /\ NotCancel
    /\ notifyCalls' = [notifyCalls EXCEPT ![r] = @ + 1]
    /\ \E outcome \in outcomes :
          /\ dispatchFailed' = [dispatchFailed EXCEPT ![r] =
                IF outcome = "ok" THEN @ ELSE @ \cup {"notify"}]
          /\ pc' = [pc EXCEPT ![r] = IF outcome = "timeout" THEN "waiting" ELSE "shipment"]
    /\ UNCHANGED <<locals, pending, result, reserveCalls, releaseCalls, grantedAt,
                   shipmentCalls, store, inventory, now>>

\* lines 272-285: one POST /notifications that ends in one of outcomes, its
\* failure is swallowed
Notify(r, outcomes) ==
    /\ pc[r] = "notify"
    /\ NotCancel
    /\ notifyCalls' = [notifyCalls EXCEPT ![r] = @ + 1]
    /\ \E outcome \in outcomes :
          dispatchFailed' = [dispatchFailed EXCEPT ![r] =
              IF outcome = "ok" THEN @ ELSE @ \cup {"notify"}]
    /\ pc' = [pc EXCEPT ![r] = "shipment"]
    /\ UNCHANGED <<locals, pending, result, reserveCalls, releaseCalls, grantedAt,
                   shipmentCalls, store, inventory, now>>

\* lines 288-319: one POST /shipments that ends in one of outcomes, its
\* failure is swallowed; the response
CreateShipment(r, outcomes) ==
    /\ pc[r] = "shipment"
    /\ NotCancel
    /\ shipmentCalls' = [shipmentCalls EXCEPT ![r] = @ + 1]
    /\ \E outcome \in outcomes :
          dispatchFailed' = [dispatchFailed EXCEPT ![r] =
              IF outcome = "ok" THEN @ ELSE @ \cup {"shipment"}]
    /\ Done(r, 200, FALSE, order_id[r], "Order placed successfully")
    /\ UNCHANGED <<locals, pending, reserveCalls, releaseCalls, grantedAt,
                   notifyCalls, store, inventory, now>>

\* ----------------------------------------------------------- cancel_order
\* the order ids a cancel is tried with: those of the persisted orders and
\* those of the requests that have paid and not yet committed
OrderIds ==
    {o.order_id : o \in Orders} \cup
    {order_id[r] : r \in {q \in Requests : pc[q] \in {"insert", "commit"}}}

ItemsOf(id) == SelectSeq(Order_Items, LAMBDA row : row.order_id = id)

\* CancelPayloads with one release for the whole order
CancelPayloadsFirstLine(order) ==
    LET items == ItemsOf(order.order_id)
    IN  [i \in 1..(IF Len(items) = 0 THEN 0 ELSE 1) |->
            [idempotency_key |-> ReservationKey(order.idempotency_key, items[i].product_id),
             order_id |-> order.order_id]]

\* lines 364-369: the release payloads of an order's lines
CancelPayloads(order) ==
    LET items == ItemsOf(order.order_id)
    IN  [i \in 1..Len(items) |->
            [idempotency_key |-> ReservationKey(order.idempotency_key, items[i].product_id),
             order_id |-> order.order_id]]

\* ReleaseCallsMade of a loop that a failing call ends
ReleaseCallsUntilFailure(payloads, delivered) ==
    LET failed == (1..Len(payloads)) \ delivered
    IN  IF failed = {} THEN payloads
        ELSE SubSeq(payloads, 1, CHOOSE i \in failed : \A j \in failed : i <= j)

\* lines 364-376: the release calls made when the calls at the indices outside
\* delivered fail; the try is inside the loop, so the loop goes on
ReleaseCallsMade(payloads, delivered) == payloads

\* NotCancellable that lets a cancelled order be cancelled again
NotCancellableShipped == {"SHIPPED", "DELIVERED"}

\* line 356
NotCancellable == {"CANCELLED", "SHIPPED", "DELIVERED"}

\* FindById that also reads the rows of open transactions
FindByIdUncommitted(id) ==
    {o \in Orders \cup UNION {pending[r].orders : r \in Requests} : o.order_id = id}

\* lines 350-351
FindById(id) == {o \in Orders : o.order_id = id}

\* CancelledRow of a cancellation that marks the payment as refunded
CancelledRowRefunded(order) ==
    [order EXCEPT !.order_status = "CANCELLED", !.payment_status = "REFUNDED"]

\* lines 379-382: UPDATE Orders SET order_status = 'CANCELLED'
CancelledRow(order) == [order EXCEPT !.order_status = "CANCELLED"]

\* lines 343-394
CancelOrder(id) ==
    LET found == FindById(id)
        order == CHOOSE o \in found : TRUE
    IN  /\ UNCHANGED <<pc, locals, pending, result, calls, Order_Items, wrote, now,
                       expiries>>
        /\ readResponse' = NoRead
        /\ UNCHANGED <<demo, shipmentService>>
        /\ IF found = {}
           THEN /\ cancelResponse' = [NoCancel EXCEPT !.order_id = id, !.status = 404]
                /\ UNCHANGED <<Orders, inventory>>
           ELSE IF order.order_status \in NotCancellable
           THEN /\ cancelResponse' = [NoCancel EXCEPT !.order_id = id, !.status = 400]
                /\ UNCHANGED <<Orders, inventory>>
           ELSE LET payloads == IF order.idempotency_key # None
                                THEN CancelPayloads(order) ELSE <<>>
                IN  \E delivered \in SUBSET (1..Len(payloads)), db \in {"ok", "error"} :
                    LET made == ReleaseCallsMade(payloads, delivered)
                    IN  /\ inventory' = ReleaseAll(inventory, made, delivered)
                        /\ Orders' = IF db = "ok"
                                     THEN (Orders \ {order}) \cup {CancelledRow(order)}
                                     ELSE Orders
                        /\ cancelResponse' =
                              [order_id |-> id,
                               status |-> IF db = "ok" THEN 200 ELSE 500,
                               releaseCalls |-> made]

\* ------------------------------------------------------------ the reads
\* the ids a read is tried with: every value line 118 can give
ReadIds == {OrderIdAt(t) : t \in ClockValues}
ReadLimits == {1, 10}

\* lines 58-73: GET /v1/orders/{order_id}. The HTTPException(404) of line 64
\* is raised inside the try; it is an Exception and the only except clause
\* (lines 69-70) turns every Exception into HTTPException(500) whose detail is
\* the text of the exception caught.
GetOrderById(id) ==
    /\ cancelResponse' = NoCancel
    /\ UNCHANGED <<pc, locals, pending, result, calls, store, inventory, now, expiries,
                   demo, shipmentService>>
    /\ \E db \in {"ok", "error"} :
          LET found == FindById(id)
              answer(status, detail, orders, items) ==
                  [op |-> "get_order_by_id", order_id |-> id, status |-> status,
                   detail |-> detail, orders |-> orders, items |-> items]
          IN  readResponse' =
                  IF db = "error" THEN answer(500, "Database error", {}, <<>>)
                  ELSE IF found = {} THEN answer(500, "404: Order not found", {}, <<>>)
                  ELSE answer(200, "none", found, ItemsOf(id))

\* lines 46-56: GET /v1/orders?limit=..., the most recent orders (the
\* creation time is the table's: any limit of the orders may be the recent
\* ones)
GetOrders(limit) ==
    /\ cancelResponse' = NoCancel
    /\ UNCHANGED <<pc, locals, pending, result, calls, store, inventory, now, expiries,
                   demo, shipmentService>>
    /\ \E db \in {"ok", "error"} :
          \E recent \in SUBSET Orders :
              /\ Cardinality(recent) = IF Cardinality(Orders) < limit
                                       THEN Cardinality(Orders) ELSE limit
              /\ readResponse' =
                    IF db = "error"
                    THEN [NoRead EXCEPT !.op = "get_orders", !.status = 500,
                                        !.detail = "Database error"]
                    ELSE [NoRead EXCEPT !.op = "get_orders", !.status = 200,
                                        !.orders = recent]

\* ------------------------------ enhanced-workflow-demo.py, the demo workflow
\* lines 76-79
DemoItems ==
    <<[product_id |-> 1, sku |-> "LAPTOP001", quantity |-> 2],
      [product_id |-> 2, sku |-> "MOUSE001", quantity |-> 1]>>

\* the entries of seq at the indices in idx, in order
RECURSIVE Pick(_, _, _)
Pick(seq, idx, i) ==
    IF i > Len(seq) THEN <<>>
    ELSE (IF i \in idx THEN <<seq[i]>> ELSE <<>>) \o Pick(seq, idx, i + 1)

\* POST /inventory/ship: a RESERVED reservation becomes SHIPPED, its quantity
\* has left the stock
InvShip(inv, data) ==
    IF inv.resv[data.idempotency_key].status = "RESERVED"
    THEN [inv EXCEPT !.resv[data.idempotency_key].status = "SHIPPED"]
    ELSE inv

RECURSIVE ShipEach(_, _, _, _)
ShipEach(inv, payloads, delivered, i) ==
    IF i > Len(payloads) THEN inv
    ELSE ShipEach(IF i \in delivered THEN InvShip(inv, payloads[i]) ELSE inv,
                  payloads, delivered, i + 1)

\* a step of the demo workflow leaves the order service's responses empty
DemoStep ==
    /\ cancelResponse' = NoCancel
    /\ readResponse' = NoRead
    /\ UNCHANGED <<expiries, shipmentService>>

\* lines 270-286 followed by return None: one release call per entry of
\* reservations; a call that fails is reported and the loop goes on
DemoRollback(inv) ==
    LET payloads == [i \in 1..Len(demo.reservations) |->
                        [idempotency_key |-> demo.reservations[i].idempotency_key,
                         order_id |-> demo.reservations[i].order_id]]
    IN  /\ \E delivered \in SUBSET (1..Len(payloads)) :
              inventory' = ReleaseAll(inv, payloads, delivered)
        /\ demo' = [demo EXCEPT !.pc = "done", !.returned = "None",
                                !.releaseCalls = @ \o payloads]

\* return None with no call made
DemoReturnNone ==
    /\ demo' = [demo EXCEPT !.pc = "done", !.returned = "None"]
    /\ UNCHANGED inventory

\* lines 85-107: the items whose availability request is answered (those at
\* the indices in checked) and whose total_available covers the quantity
DemoCheckAvailability ==
    /\ demo.pc = "start"
    /\ DemoStep
    /\ UNCHANGED <<pc, locals, pending, result, calls, store, now>>
    /\ \E checked \in SUBSET (1..Len(DemoItems)) :
          LET enough == {i \in checked :
                            inventory.stock[DemoItems[i].product_id]
                                >= DemoItems[i].quantity}
              available_items == Pick(DemoItems, enough, 1)
          IN  IF available_items = <<>>
              THEN DemoReturnNone
              ELSE /\ demo' = [demo EXCEPT !.pc = "reserve",
                                           !.available_items = available_items]
                   /\ UNCHANGED inventory

\* lines 112-133: one pass of the reservation loop
DemoReserve ==
    /\ demo.pc = "reserve"
    /\ DemoStep
    /\ UNCHANGED <<pc, locals, pending, result, calls, store, now>>
    /\ LET item == demo.available_items[Len(demo.reservations) + 1]
           reservation_data ==
               [product_id |-> item.product_id,
                quantity |-> item.quantity,
                idempotency_key |-> ReservationKey(DemoReserveKey, item.product_id),
                order_id |-> DemoKey]
           call == InvReserve(inventory, reservation_data)
       IN  \E outcome \in {"response", "error", "unreachable", "timeout"} :
           LET processed == outcome \in {"response", "timeout"}
               inv == IF processed THEN call.inventory ELSE inventory
           IN  IF outcome = "response" /\ call.granted
               THEN /\ inventory' = inv
                    /\ demo' = [demo EXCEPT
                          !.reservations = Append(@, reservation_data),
                          !.pc = IF Len(demo.reservations) + 1 = Len(demo.available_items)
                                 THEN "pay" ELSE "reserve"]
               ELSE DemoRollback(inv)

\* lines 152-171: POST /payments/charge
DemoPay ==
    /\ demo.pc = "pay"
    /\ DemoStep
    /\ UNCHANGED <<pc, locals, pending, result, calls, store, now>>
    /\ \E outcome \in {"ok", "failed"} :
          IF outcome = "ok"
          THEN /\ demo' = [demo EXCEPT !.pc = "order"]
               /\ UNCHANGED inventory
          ELSE DemoRollback(inventory)

\* lines 176-185: POST /v1/orders with the demo's key in header and body and
\* the available items; place_order starts (lines 87-106) unless the request
\* does not arrive
DemoCreateOrder(r) ==
    /\ demo.pc = "order"
    /\ pc[r] = "idle"
    /\ DemoStep
    /\ UNCHANGED <<order_id, reservations, order_items, total_amount, payment_success,
                   pending, result, calls, store, inventory, now>>
    /\ \E outcome \in {"sent", "unreachable"} :
          IF outcome = "sent"
          THEN /\ req' = [req EXCEPT ![r] =
                            [customer_id |-> 1, items |-> demo.available_items,
                             header |-> DemoKey, body |-> DemoKey]]
               /\ idempotency_key' = [idempotency_key EXCEPT ![r] =
                                         EffectiveKey(DemoKey, DemoKey, Uuid(r))]
               /\ pc' = [pc EXCEPT ![r] = "lookup"]
               /\ demo' = [demo EXCEPT !.pc = "await"]
          ELSE /\ demo' = [demo EXCEPT !.pc = "done", !.returned = "None"]
               /\ UNCHANGED <<pc, req, idempotency_key>>

\* lines 187-195: the answer of place_order, or the timeout of line 31 while
\* place_order is still running; anything but 200 ends the workflow with
\* return None
DemoOrderAnswer(r) ==
    /\ demo.pc = "await"
    /\ DemoStep
    /\ UNCHANGED <<pc, locals, pending, result, calls, store, inventory, now>>
    /\ demo' = IF pc[r] = "done" /\ result[r].status = 200
               THEN [demo EXCEPT !.pc = "finish"]
               ELSE [demo EXCEPT !.pc = "done", !.returned = "None"]

\* lines 197-268: notification and shipment (their failures are reported and
\* passed over), one POST /inventory/ship per entry of reservations, and the
\* summary is returned
DemoFinish ==
    /\ demo.pc = "finish"
    /\ DemoStep
    /\ UNCHANGED <<pc, locals, pending, result, calls, store, now>>
    /\ \E delivered \in SUBSET (1..Len(demo.reservations)) :
          inventory' = ShipEach(inventory, demo.reservations, delivered, 1)
    /\ demo' = [demo EXCEPT !.pc = "done", !.returned = "summary"]

\* ------------------------------------- the shipment service (main.py)
ShipmentIds == {1, 2}
\* lines 9-16: the Shipment body
Shipment ==
    [shipment_id : ShipmentIds, order_id : {1000}, carrier : {"UPS"},
     status : {"CREATED", "SHIPPED", "DELIVERED"}, tracking_no : {"T1"},
     shipped_at : {None}, delivered_at : {None}]

\* the shipment handlers leave the order service and the demo workflow alone
ShipmentStep ==
    UNCHANGED <<pc, locals, pending, result, calls, store, inventory, now, expiries,
                cancelResponse, readResponse, demo>>

ShipmentAnswer(op, id, status, detail) ==
    shipmentResponse' = [op |-> op, shipment_id |-> id, status |-> status,
                         detail |-> detail]

\* an HTTPException(404) raised inside the try of a handler is an Exception:
\* the handler's only except clause (lines 63-64, 86-88, 105-107) catches it
\* and raises HTTPException(500) with the text of the exception as detail
ShipmentNotFound(op, id) == ShipmentAnswer(op, id, 500, "404: Shipment not found")

\* lines 33-50: POST /shipments; shipment_id is the primary key (db_setup.py
\* line 21)
AddShipment(shipment) ==
    /\ ShipmentStep
    /\ \E db \in {"ok", "error"} :
          IF db = "error" \/ \E row \in Shipments : row.shipment_id = shipment.shipment_id
          THEN /\ ShipmentAnswer("add_shipment", shipment.shipment_id, 500,
                                 "Database error")
               /\ UNCHANGED Shipments
          ELSE /\ ShipmentAnswer("add_shipment", shipment.shipment_id, 200, "none")
               /\ Shipments' = Shipments \cup {shipment}

\* lines 53-66: GET /shipments/{shipment_id}
GetShipmentById(shipment_id) ==
    /\ ShipmentStep
    /\ UNCHANGED Shipments
    /\ \E db \in {"ok", "error"} :
          IF db = "error"
          THEN ShipmentAnswer("get_shipment_by_id", shipment_id, 500, "Database error")
          ELSE IF \E row \in Shipments : row.shipment_id = shipment_id
          THEN ShipmentAnswer("get_shipment_by_id", shipment_id, 200, "none")
          ELSE ShipmentNotFound("get_shipment_by_id", shipment_id)

\* lines 68-90: PUT /shipments/{shipment_id}. The UPDATE is committed before
\* cur.rowcount is read; for a row that is there and already holds the new
\* values the connection reports 0 or 1 according to its CLIENT_FOUND_ROWS
\* flag (db_utils is not part of the sources).
UpdateShipment(shipment_id, updated_shipment) ==
    /\ ShipmentStep
    /\ \E db \in {"ok", "error"} :
          LET old == {row \in Shipments : row.shipment_id = shipment_id}
              new == {[updated_shipment EXCEPT !.shipment_id = shipment_id] :
                         row \in old}
          IN  IF db = "error"
              THEN /\ ShipmentAnswer("update_shipment", shipment_id, 500,
                                     "Database error")
                   /\ UNCHANGED Shipments
              ELSE /\ Shipments' = (Shipments \ old) \cup new
                   /\ \E rowcount \in IF old = {} THEN {0}
                                      ELSE IF new = old THEN {0, 1} ELSE {1} :
                         IF rowcount = 0
                         THEN ShipmentNotFound("update_shipment", shipment_id)
                         ELSE ShipmentAnswer("update_shipment", shipment_id, 200, "none")

\* lines 92-109: DELETE /shipments/{shipment_id}
DeleteShipment(shipment_id) ==
    /\ ShipmentStep
    /\ \E db \in {"ok", "error"} :
          LET old == {row \in Shipments : row.shipment_id = shipment_id}
          IN  IF db = "error"
              THEN /\ ShipmentAnswer("delete_shipment", shipment_id, 500,
                                     "Database error")
                   /\ UNCHANGED Shipments
              ELSE /\ Shipments' = Shipments \ old
                   /\ IF old = {}
                      THEN ShipmentNotFound("delete_shipment", shipment_id)
                      ELSE ShipmentAnswer("delete_shipment", shipment_id, 200, "none")

\* ---------------------------------------------------------- specification
InitWith(stock) ==
    /\ pc = [r \in Requests |-> "idle"]
    /\ req = [r \in Requests |-> NoRequest]
    /\ idempotency_key = [r \in Requests |-> None]
    /\ order_id = [r \in Requests |-> 0]
    /\ reservations = [r \in Requests |-> <<>>]
    /\ order_items = [r \in Requests |-> <<>>]
    /\ total_amount = [r \in Requests |-> 0]
    /\ payment_success = [r \in Requests |-> FALSE]
    /\ pending = [r \in Requests |-> NoTx]
    /\ result = [r \in Requests |-> NoResult]
    /\ reserveCalls = [r \in Requests |-> 0]
    /\ releaseCalls = [r \in Requests |-> <<>>]
    /\ grantedAt = [r \in Requests |-> {}]
    /\ notifyCalls = [r \in Requests |-> 0]
    /\ shipmentCalls = [r \in Requests |-> 0]
    /\ dispatchFailed = [r \in Requests |-> {}]
    /\ wrote = {}
    /\ Orders = {}
    /\ Order_Items = <<>>
    /\ inventory = [stock |-> [p \in Products |-> stock],
                    resv |-> [k \in ReservationKeys |-> NoReservation]]
    /\ now = <<0, 1000>>
    /\ expiries = 0
    /\ cancelResponse = NoCancel
    /\ readResponse = NoRead
    /\ demo = NoDemo
    /\ Shipments = {}
    /\ shipmentResponse = NoShipmentResponse

Init == InitWith(InitStock)

Next ==
    \/ \E r \in Requests : Submit(r, SingleItemLists, {None})
    \/ \E r \in Requests : Lookup(r)
    \/ \E r \in Requests : ReserveItem(r)
    \/ \E r \in Requests : Pay(r)
    \/ \E r \in Requests : InsertRows(r)
    \/ \E r \in Requests : Commit(r)
    \/ \E r \in Requests : Notify(r, {"ok"})
    \/ \E r \in Requests : CreateShipment(r, {"ok"})
    \/ \E id \in OrderIds : CancelOrder(id)

\* concurrent requests that carry their key in the header, and cancellations
Spec == Init /\ [][Next]_vars

\* the request arrives while no other request is being served
SubmitNext(r) ==
    /\ \A q \in Requests \ {r} : pc[q] \in {"idle", "done"}
    /\ Submit(r, SingleItemLists, BodyKeys)

NextSeq ==
    \/ \E r \in Requests : SubmitNext(r)
    \/ \E r \in Requests : Lookup(r)
    \/ \E r \in Requests : ReserveItem(r)
    \/ \E r \in Requests : Pay(r)
    \/ \E r \in Requests : InsertRows(r)
    \/ \E r \in Requests : Commit(r)
    \/ \E r \in Requests : Notify(r, {"ok"})
    \/ \E r \in Requests : CreateShipment(r, {"ok"})
    \/ \E id \in OrderIds : CancelOrder(id)
    \/ \E k \in ReservationKeys : Expire(k)

\* requests served one after the other, cancellations and expiries
SpecSeq == Init /\ [][NextSeq]_vars

NextSolo ==
    \/ Submit("r1", ItemLists, {None})
    \/ Lookup("r1")
    \/ ReserveItem("r1")
    \/ Pay("r1")
    \/ InsertRows("r1")
    \/ Commit("r1")
    \/ Notify("r1", {"ok"})
    \/ CreateShipment("r1", {"ok"})
    \/ \E id \in OrderIds : CancelOrder(id)
    \/ \E k \in ReservationKeys : Expire(k)

\* one request with a longer item list, cancellations and expiries
SpecSolo == Init /\ [][NextSolo]_vars

NextDispatch ==
    \/ Submit("r1", SingleItemLists, BodyKeys)
    \/ Lookup("r1")
    \/ LookupFails("r1")
    \/ ReserveItem("r1")
    \/ Pay("r1")
    \/ InsertRows("r1")
    \/ Commit("r1")
    \/ Notify("r1", DispatchOutcomes)
    \/ CreateShipment("r1", DispatchOutcomes)
    \/ \E id \in OrderIds : CancelOrder(id)
    \/ \E k \in ReservationKeys : Expire(k)

\* one request of one item whose lookup, notification and shipment calls may
\* fail
SpecDispatch == Init /\ [][NextDispatch]_vars

NextRead ==
    \/ Submit("r1", SingleItemLists, {None})
    \/ Lookup("r1")
    \/ ReserveItem("r1")
    \/ Pay("r1")
    \/ InsertRows("r1")
    \/ Commit("r1")
    \/ Notify("r1", {"ok"})
    \/ CreateShipment("r1", {"ok"})
    \/ \E id \in OrderIds : CancelOrder(id)
    \/ \E id \in ReadIds : GetOrderById(id)
    \/ \E limit \in ReadLimits : GetOrders(limit)

\* one request of one item, cancellations and reads of the orders
SpecRead == Init /\ [][NextRead]_vars

NextDemo ==
    \/ DemoCheckAvailability
    \/ DemoReserve
    \/ DemoPay
    \/ DemoCreateOrder("r1")
    \/ DemoOrderAnswer("r1")
    \/ DemoFinish
    \/ Lookup("r1")
    \/ ReserveItem("r1")
    \/ Pay("r1")
    \/ InsertRows("r1")
    \/ Commit("r1")
    \/ Notify("r1", {"ok"})
    \/ CreateShipment("r1", {"ok"})
    \/ \E k \in ReservationKeys : Expire(k)

\* the demo workflow and the place_order it calls, with DemoStock of each
\* product in stock, and expiries
SpecDemo == InitWith(DemoStock) /\ [][NextDemo]_vars

NextShipment ==
    \/ \E shipment \in Shipment : AddShipment(shipment)
    \/ \E id \in ShipmentIds : GetShipmentById(id)
    \/ \E id \in ShipmentIds : \E shipment \in Shipment : UpdateShipment(id, shipment)
    \/ \E id \in ShipmentIds : DeleteShipment(id)

\* the shipment service on its own
SpecShipment == Init /\ [][NextShipment]_vars

\* one statement or call of place_order for request r: the handler runs from
\* line 87 to a return or a raise without waiting for anything but its own
\* calls, each of which has a timeout (lines 142, 168, 185, 230, 244, 282, 297,
\* 330)
PlaceOrderStep(r) ==
    \/ Lookup(r)
    \/ LookupFails(r)
    \/ ReserveItem(r)
    \/ Pay(r)
    \/ InsertRows(r)
    \/ Commit(r)
    \/ Notify(r, DispatchOutcomes)
    \/ CreateShipment(r, DispatchOutcomes)

\* SpecDispatch where a request that has arrived keeps running
SpecDispatchFair == SpecDispatch /\ WF_vars(PlaceOrderStep("r1"))

\* SpecDispatchFair where the inventory service also lets the TTL of every
\* reservation run out
SpecDispatchTTL ==
    SpecDispatchFair /\ \A k \in ReservationKeys : WF_vars(Expire(k))

\* ================================================================= claims
OrdersWithKey(key) == {o \in Orders : o.idempotency_key = key}
Aborted(r) == pc[r] = "done" /\ result[r].status # 200
Created(r) == pc[r] = "done" /\ result[r].status = 200 /\ ~result[r].idempotent
Deduplicated(r) == pc[r] = "done" /\ result[r].status = 200 /\ result[r].idempotent

\* the release payload place_order builds for the i-th item of request r
PayloadOf(r, i) ==
    [idempotency_key |-> ReservationKey(idempotency_key[r], req[r].items[i].product_id),
     order_id |-> order_id[r]]

\* C1: a place_order whose key is the key of a persisted order returns that
\* order's id with the idempotent flag set, whatever its items are, and a key
\* that has exactly one persisted order keeps exactly one.
C1_DuplicateKeyReturnsExisting ==
    [][ /\ \A r \in Requests :
              (pc[r] = "lookup" /\ pc'[r] # "lookup" /\ OrdersWithKey(idempotency_key[r]) # {})
              => /\ pc'[r] = "done"
                 /\ result'[r].status = 200
                 /\ result'[r].idempotent
                 /\ \E o \in OrdersWithKey(idempotency_key[r]) :
                       result'[r].order_id = o.order_id
        /\ \A key \in Keys :
              Cardinality(OrdersWithKey(key)) = 1
              => Cardinality({o \in Orders' : o.idempotency_key = key}) = 1
      ]_vars

\* a second call with the key of the first and other items got the first's order
C1_Witness ==
    \E r, q \in Requests :
        /\ Created(q) /\ Deduplicated(r)
        /\ idempotency_key[r] = idempotency_key[q]
        /\ result[r].order_id = result[q].order_id
        /\ req[r].items # req[q].items
        /\ Cardinality(OrdersWithKey(idempotency_key[r])) = 1

\* C2: no two persisted orders share an idempotency key, also when two calls
\* with one key both pass the lookup before either commits; a key for which a
\* call returned an order has exactly one persisted order.
C2_KeyUniqueAcrossOrders ==
    /\ \A key \in Keys : Cardinality(OrdersWithKey(key)) <= 1
    /\ \A r \in Requests :
          (pc[r] = "done" /\ result[r].status = 200)
          => Cardinality(OrdersWithKey(idempotency_key[r])) = 1

\* two calls with one key both passed the lookup, one of them created the order
C2_Witness ==
    \E r, q \in Requests :
        /\ r # q
        /\ idempotency_key[r] = idempotency_key[q]
        /\ Created(q)
        /\ pc[r] = "done" /\ payment_success[r]
        /\ Cardinality(OrdersWithKey(idempotency_key[r])) = 1

\* C3: the call that loses the write race of a concurrent duplicate submission
\* (its INSERT meets the winner's committed order) does not fail: it returns
\* the winner's order with the idempotent flag set.
C3_LoserReadsBackWinner ==
    \A r \in Requests :
        ( /\ pc[r] = "done"
          /\ payment_success[r]
          /\ r \notin wrote
          /\ result[r].detail # "Database error"
          /\ OrdersWithKey(idempotency_key[r]) # {} )
        => /\ result[r].status = 200
           /\ result[r].idempotent
           /\ \E o \in OrdersWithKey(idempotency_key[r]) : result[r].order_id = o.order_id

\* C4: when the reserve call for item k is the first that is not granted, the
\* release calls of the request are exactly one per item 1..k-1, in order, and
\* no reserve call was made after item k.
C4_CompensationCoversEarlierItems ==
    \A r \in Requests :
        (Aborted(r) /\ ~payment_success[r])
        => LET k == Len(reservations[r]) + 1
           IN  /\ k <= Len(req[r].items)
               /\ reserveCalls[r] = k
               /\ releaseCalls[r] = [i \in 1..(k - 1) |-> PayloadOf(r, i)]

\* the second of three items was denied for lack of stock after the first was
\* granted: one release call, for the first item, and no third reserve call
C4_Witness ==
    /\ Aborted("r1")
    /\ result["r1"].status = 409
    /\ Len(req["r1"].items) = 3
    /\ req["r1"].items[2].quantity > InitStock
    /\ reserveCalls["r1"] = 2
    /\ releaseCalls["r1"] = <<PayloadOf("r1", 1)>>

\* C5: an aborted place_order has made a release call for every reservation
\* the inventory service granted to it, also for a grant whose reserve call
\* ended in a timeout or an unreadable response at the caller.
C5_EveryGrantReleasedOnAbort ==
    \A r \in Requests :
        Aborted(r)
        => \A k \in grantedAt[r] :
              \E i \in 1..Len(releaseCalls[r]) : releaseCalls[r][i].idempotency_key = k

\* C7: an order is committed as CONFIRMED only when the payment was approved
\* and every line's reservation is RESERVED at the moment of the commit.
C7_ConfirmedOnlyWithLiveReservations ==
    [][ \A r \in Requests :
            (r \notin wrote /\ r \in wrote')
            => /\ payment_success[r]
               /\ \A i \in 1..Len(pending[r].items) :
                     inventory.resv[ReservationKey(idempotency_key[r],
                                                   pending[r].items[i].product_id)].status
                         = "RESERVED"
      ]_vars

\* C8: a place_order that fails has created no Orders row and no Order_Items
\* row: with no other request, both tables are empty and no transaction is open.
C8_AbortedRequestPersistsNothing ==
    \A r \in Requests :
        (Aborted(r) /\ result[r].status \in {409, 503, 402})
        => /\ r \notin wrote
           /\ pending[r] = NoTx
           /\ Orders = {}
           /\ Order_Items = <<>>

\* a request failed in the reservation phase after a first item was granted
C8_Witness ==
    /\ Aborted("r1")
    /\ result["r1"].status \in {409, 503}
    /\ Len(reservations["r1"]) = 1

\* C9: a place_order that finds an order with its key makes no reserve,
\* release, payment, notification or shipment call and changes neither the
\* order tables nor the inventory.
C9_DedupPathHasNoEffect ==
    /\ [](\A r \in Requests :
             Deduplicated(r)
             => /\ reserveCalls[r] = 0 /\ releaseCalls[r] = <<>> /\ grantedAt[r] = {}
                /\ notifyCalls[r] = 0 /\ shipmentCalls[r] = 0
                /\ ~payment_success[r] /\ r \notin wrote)
    /\ [][ \A r \in Requests :
              (pc[r] = "lookup" /\ pc'[r] # "lookup" /\ OrdersWithKey(idempotency_key[r]) # {})
              => /\ pc'[r] = "done"
                 /\ reserveCalls'[r] = 0 /\ releaseCalls'[r] = <<>>
                 /\ notifyCalls'[r] = 0 /\ shipmentCalls'[r] = 0
                 /\ ~payment_success'[r]
                 /\ UNCHANGED <<Orders, Order_Items, inventory>>
         ]_vars

\* a call was answered from the existing order
C9_Witness ==
    \E r \in Requests :
        /\ Deduplicated(r)
        /\ \E o \in Orders : o.order_id = result[r].order_id
                             /\ o.idempotency_key = idempotency_key[r]

\* C10: when the write of the order fails after the payment was approved,
\* place_order fails with status 500, the payment stays approved and no row
\* of the request is in the tables.
C10_PersistenceFailureLeavesNoRows ==
    \A r \in Requests :
        (Aborted(r) /\ payment_success[r])
        => /\ result[r].status = 500
           /\ r \notin wrote
           /\ pending[r] = NoTx
           /\ Orders = {}
           /\ Order_Items = <<>>

\* the commit of a paid request failed
C10_Witness ==
    /\ pc["r1"] = "done"
    /\ payment_success["r1"]
    /\ result["r1"].status = 500
    /\ result["r1"].detail = "Database error"
    /\ Len(order_items["r1"]) = 2

\* C11: when the write of the order fails after the payment was approved,
\* place_order makes no release call for the reservations it was granted.
C11_PersistenceFailureReleasesNothing ==
    \A r \in Requests :
        (Aborted(r) /\ payment_success[r] /\ result[r].status = 500)
        => releaseCalls[r] = <<>>

\* the lines place_order is asked to persist for request r
LinesOf(r) ==
    [i \in 1..Len(req[r].items) |->
        [order_id |-> order_id[r],
         product_id |-> req[r].items[i].product_id,
         sku |-> req[r].items[i].sku,
         quantity |-> req[r].items[i].quantity,
         unit_price |-> UnitPrice]]

\* C12: in every state of the tables, each order was written by a request
\* whose payment was approved and is there together with all the lines of that
\* request, and each line belongs to an order that is there.
C12_OrderAndLinesAtomicAfterPayment ==
    /\ \A o \in Orders :
          \E r \in wrote :
              /\ order_id[r] = o.order_id
              /\ payment_success[r]
              /\ ItemsOf(o.order_id) = LinesOf(r)
    /\ \A i \in 1..Len(Order_Items) :
          \E o \in Orders : o.order_id = Order_Items[i].order_id

\* one order is visible with its line while another request has written its
\* rows and not yet committed them
C12_Witness ==
    \E r, q \in Requests :
        /\ pc[r] = "commit" /\ pending[r].orders # {}
        /\ q \in wrote
        /\ \E o \in Orders : o.order_id = order_id[q] /\ Len(ItemsOf(o.order_id)) = 1
        /\ \A o \in Orders : o.order_id # order_id[r]

\* C13: a notification or shipment call that fails after the commit leaves
\* the result of place_order as it is without the failure (status 200, the
\* new order's id), makes no release call and changes neither the order
\* tables nor the inventory; each of the two calls is made at most once.
C13_DispatchFailuresAreSwallowed ==
    /\ [](\A r \in Requests :
             /\ notifyCalls[r] <= 1 /\ shipmentCalls[r] <= 1
             /\ dispatchFailed[r] # {} => releaseCalls[r] = <<>>
             /\ (pc[r] = "done" /\ dispatchFailed[r] # {})
                => /\ result[r] = [status |-> 200, idempotent |-> FALSE,
                                   order_id |-> order_id[r],
                                   detail |-> "Order placed successfully",
                                   order_status |-> "CONFIRMED"]
                   /\ notifyCalls[r] = 1 /\ shipmentCalls[r] = 1)
    /\ [][ \A r \in Requests :
              dispatchFailed'[r] # dispatchFailed[r]
              => /\ UNCHANGED <<Orders, Order_Items, inventory, releaseCalls>>
                 /\ pc[r] = "notify" => pc'[r] = "shipment"
         ]_vars

\* both calls failed and the order placed is returned and still CONFIRMED
C13_Witness ==
    /\ pc["r1"] = "done"
    /\ dispatchFailed["r1"] = {"notify", "shipment"}
    /\ result["r1"].status = 200
    /\ \E o \in Orders : o.order_id = result["r1"].order_id
                         /\ o.order_status = "CONFIRMED"

\* C14: no order in the Orders table is PENDING: an order appears there as
\* CONFIRMED and PAID, and from then on it is CONFIRMED or CANCELLED.
C14_NoPendingOrderVisible ==
    /\ [](\A o \in Orders :
             /\ o.order_status \in {"CONFIRMED", "CANCELLED"}
             /\ o.payment_status = "PAID")
    /\ [][ \A o \in Orders' :
              (\A p \in Orders : p.order_id # o.order_id)
              => o.order_status = "CONFIRMED" /\ o.payment_status = "PAID"
         ]_vars

\* one order has been cancelled while another request has written its order
\* and not yet committed it
C14_Witness ==
    /\ \E o \in Orders : o.order_status = "CANCELLED"
    /\ \E r \in Requests :
          /\ pc[r] = "commit"
          /\ \A o \in Orders : o.order_id # order_id[r]

\* the persisted order a cancel_order that has just returned was called with
Cancelled(o) == cancelResponse' # NoCancel /\ cancelResponse'.order_id = o.order_id

\* C15: cancel_order on an order that is CANCELLED, SHIPPED or DELIVERED is
\* rejected with status 400, makes no release call and changes neither the
\* order nor the inventory; so is a second cancel_order on an order.
C15_CancelRejectedInFinalStatus ==
    [][ \A o \in Orders :
            (Cancelled(o) /\ o.order_status \in {"CANCELLED", "SHIPPED", "DELIVERED"})
            => /\ cancelResponse'.status = 400
               /\ cancelResponse'.releaseCalls = <<>>
               /\ UNCHANGED <<Orders, Order_Items, inventory>>
      ]_vars

\* a cancel_order on a cancelled order was rejected
C15_Witness ==
    /\ cancelResponse.status = 400
    /\ \E o \in Orders : /\ o.order_id = cancelResponse.order_id
                         /\ o.order_status = "CANCELLED"
                         /\ Len(ItemsOf(o.order_id)) >= 1

\* C16: cancel_order on a persisted order that is PENDING or CONFIRMED, when
\* the database executes its statements, returns 200, has made one release
\* call per line of the order, keyed by the order's key and the line's
\* product id, and leaves the order CANCELLED.
C16_CancelReleasesEveryLine ==
    [][ \A o \in Orders :
            ( /\ Cancelled(o)
              /\ o.order_status \in {"PENDING", "CONFIRMED"}
              /\ cancelResponse'.status # 500 )
            => LET lines == ItemsOf(o.order_id)
                   made == cancelResponse'.releaseCalls
               IN  /\ cancelResponse'.status = 200
                   /\ Len(made) = Len(lines)
                   /\ \A i \in 1..Len(lines) :
                         /\ made[i].idempotency_key =
                                ReservationKey(o.idempotency_key, lines[i].product_id)
                         /\ made[i].order_id = o.order_id
                   /\ Orders' = (Orders \ {o}) \cup
                                {[o EXCEPT !.order_status = "CANCELLED"]}
      ]_vars

\* an order of two lines was cancelled with a release call for each and both
\* reservations are released
C16_Witness ==
    /\ cancelResponse.status = 200
    /\ Len(cancelResponse.releaseCalls) = 2
    /\ cancelResponse.releaseCalls[1] # cancelResponse.releaseCalls[2]
    /\ \A i \in 1..2 :
          inventory.resv[cancelResponse.releaseCalls[i].idempotency_key].status = "RELEASED"
    /\ \E o \in Orders : /\ o.order_id = cancelResponse.order_id
                         /\ o.order_status = "CANCELLED"

\* C17: when a release call of cancel_order fails (the line's reservation
\* is RESERVED before the call and after it), the release calls for all the
\* lines of the order are made all the same and the order becomes CANCELLED.
C17_CancelReleaseIsBestEffort ==
    [][ \A o \in Orders :
            LET lines == ItemsOf(o.order_id)
                made == cancelResponse'.releaseCalls
                keyOf(i) == ReservationKey(o.idempotency_key, lines[i].product_id)
            IN  ( /\ Cancelled(o)
                  /\ cancelResponse'.status = 200
                  /\ \E i \in 1..Len(lines) :
                        /\ inventory.resv[keyOf(i)].status = "RESERVED"
                        /\ inventory'.resv[keyOf(i)].status = "RESERVED" )
                => /\ Len(made) = Len(lines)
                   /\ \A i \in 1..Len(lines) : made[i].idempotency_key = keyOf(i)
                   /\ \E c \in Orders' : /\ c.order_id = o.order_id
                                         /\ c.order_status = "CANCELLED"
      ]_vars

\* the release for the first of two lines failed: its reservation is still
\* held, the second line's is released and the order is CANCELLED
C17_Witness ==
    /\ cancelResponse.status = 200
    /\ Len(cancelResponse.releaseCalls) = 2
    /\ inventory.resv[cancelResponse.releaseCalls[1].idempotency_key].status = "RESERVED"
    /\ inventory.resv[cancelResponse.releaseCalls[2].idempotency_key].status = "RELEASED"
    /\ \E o \in Orders : /\ o.order_id = cancelResponse.order_id
                         /\ o.order_status = "CANCELLED"

\* C18: a place_order whose item list is empty is rejected as a bad request:
\* no reserve call, no payment, no order persisted.
C18_EmptyRequestRejected ==
    \A r \in Requests :
        (pc[r] # "idle" /\ Len(req[r].items) = 0)
        => /\ reserveCalls[r] = 0
           /\ ~payment_success[r]
           /\ r \notin wrote
           /\ pc[r] = "done" => result[r].status \in {400, 422}

\* C19: a place_order that aborts in its reservation phase has released the
\* grants it held, and it fails with 409 only when the inventory service
\* denied the item for lack of stock: an error response of the service, like
\* a network failure or a timeout, fails with 503.
C19_ConflictOnlyOnStockDenial ==
    [][ \A r \in Requests :
            (pc[r] = "reserve" /\ pc'[r] = "done")
            => LET item == req[r].items[Len(reservations[r]) + 1]
                   k == ReservationKey(idempotency_key[r], item.product_id)
                   denied == /\ inventory.resv[k].status = "NONE"
                             /\ inventory.stock[item.product_id] < item.quantity
               IN  /\ releaseCalls'[r] = reservations[r]
                   /\ result'[r].status = 409 => denied
      ]_vars

\* C20: the key place_order works with is the Idempotency-Key header when
\* there is one, else the body's idempotency_key when there is one, else a key
\* generated for the request; the lookup, the reservation keys and the order
\* written all carry that key, also when header and body differ.
C20_HeaderKeyTakesPrecedence ==
    \A r \in Requests :
        pc[r] # "idle"
        => LET key == IF req[r].header # None THEN req[r].header
                      ELSE IF req[r].body # None THEN req[r].body
                      ELSE Uuid(r)
           IN  /\ idempotency_key[r] = key
               /\ \A i \in 1..Len(reservations[r]) :
                     reservations[r][i].idempotency_key =
                         ReservationKey(key, req[r].items[i].product_id)
               /\ \A k \in grantedAt[r] : k[1] = key
               /\ \A o \in pending[r].orders : o.idempotency_key = key
               /\ r \in wrote
                  => \E o \in Orders : o.order_id = order_id[r] /\ o.idempotency_key = key
               /\ Deduplicated(r)
                  => \E o \in Orders : /\ o.order_id = result[r].order_id
                                       /\ o.idempotency_key = key

\* an order placed with header key k1 and body key k2 is stored and reserved
\* under k1, and a later call with header k1 and another body key is answered
\* from it
C20_Witness ==
    \E r, q \in Requests :
        /\ Created(r)
        /\ req[r].header = "k1" /\ req[r].body = "k2"
        /\ Len(reservations[r]) = 1
        /\ \E o \in Orders : o.order_id = order_id[r] /\ o.idempotency_key = "k1"
        /\ Deduplicated(q)
        /\ req[q].header = "k1" /\ req[q].body = None
        /\ result[q].order_id = order_id[r]

\* the sum over the lines of unit_price * quantity
RECURSIVE SumOfLines(_)
SumOfLines(lines) ==
    IF lines = <<>> THEN 0
    ELSE Head(lines).unit_price * Head(lines).quantity + SumOfLines(Tail(lines))

\* C21: every persisted order has subtotal = the sum over its lines of
\* unit_price * quantity, tax = 5% of the subtotal, shipping = 10.00 and
\* total = subtotal + tax + shipping; two lines of 29.99 with quantities 2 and
\* 1 give 89.97, 4.4985, 10.00 and 104.4685.
C21_TotalsFollowFromLines ==
    \A o \in Orders :
        LET lines == ItemsOf(o.order_id)
        IN  /\ o.subtotal = SumOfLines(lines)
            /\ o.tax_amount * 100 = o.subtotal * 5
            /\ o.shipping_amount = 100000
            /\ o.order_total = o.subtotal + o.tax_amount + o.shipping_amount
            /\ ( /\ Len(lines) = 2
                 /\ {lines[1].quantity, lines[2].quantity} = {1, 2}
                 /\ \A i \in 1..2 : lines[i].unit_price = 299900 )
               => /\ o.subtotal = 899700
                  /\ o.tax_amount = 44985
                  /\ o.order_total = 1044685

\* an order of two lines with quantities 1 and 2 is persisted
C21_Witness ==
    \E o \in Orders :
        LET lines == ItemsOf(o.order_id)
        IN  /\ Len(lines) = 2
            /\ {lines[1].quantity, lines[2].quantity} = {1, 2}
            /\ o.order_total = 1044685

\* the four signed values of an order, as the verifier encodes them
SignedValues(o) ==
    <<"shipping", o.shipping_amount, "subtotal", o.subtotal,
      "tax", o.tax_amount, "total", o.order_total>>

C23_OnlyStatusChangesOnce ==
    [][ \A o \in Orders :
            /\ \E c \in Orders' :
                  /\ c.order_id = o.order_id
                  /\ [c EXCEPT !.order_status = o.order_status] = o
                  /\ \/ c.order_status = o.order_status
                     \/ o.order_status = "CONFIRMED" /\ c.order_status = "CANCELLED"
            /\ SelectSeq(Order_Items', LAMBDA row : row.order_id = o.order_id)
                  = ItemsOf(o.order_id)
      ]_vars

\* an order was cancelled and is, but for its status, the row that was
\* inserted, with its line
C23_Witness ==
    \E r \in wrote :
        /\ cancelResponse.status = 200
        /\ cancelResponse.order_id = order_id[r]
        /\ [OrderRow(r) EXCEPT !.order_status = "CANCELLED"] \in Orders
        /\ ItemsOf(order_id[r]) = ItemRows(r)
        /\ Len(ItemRows(r)) = 1

\* C24: cancel_order with the order id of a place_order that has not yet
\* committed (and of no persisted order) returns 404, makes no release call
\* and changes nothing: the request in flight goes on from the same state.
C24_CancelIgnoresInFlightOrder ==
    [][ \A r \in Requests :
            ( /\ pc[r] \in {"reserve", "pay", "insert", "commit"}
              /\ cancelResponse' # NoCancel
              /\ cancelResponse'.order_id = order_id[r]
              /\ \A o \in Orders : o.order_id # order_id[r] )
            => /\ cancelResponse'.status = 404
               /\ cancelResponse'.releaseCalls = <<>>
               /\ UNCHANGED <<pc, locals, pending, result, calls, store, inventory>>
      ]_vars

\* a cancel for the id of a request that has written its rows and not yet
\* committed was answered with 404
C24_Witness ==
    \E r \in Requests :
        /\ pc[r] = "commit"
        /\ pending[r].orders # {}
        /\ cancelResponse.status = 404
        /\ cancelResponse.order_id = order_id[r]

\* the HTTPException details place_order raises, by status code
TypedFailures ==
    { <<409, "Failed to reserve inventory">>,
      <<503, "Inventory service unavailable">>,
      <<402, "Payment was declined">>,
      <<500, "Order processing failed">>,
      <<500, "Duplicate entry for key">>,
      <<500, "Duplicate entry for id">>,
      <<500, "Database error">> }

\* C25: every failure of place_order and cancel_order is a typed result of
\* its category (stock denial 409, collaborator 503, payment 402, persistence
\* 500, cancellation not allowed 409) and no other exception leaves the
\* handler, also when the lookup by key fails.
C25_EveryFailureIsTyped ==
    /\ \A r \in Requests :
          Aborted(r) => <<result[r].status, result[r].detail>> \in TypedFailures
    /\ cancelResponse.status \in {0, 200, 404, 409, 500}

\* C26: within one request the payment is attempted only after every item was
\* reserved, the rows are written only after the payment was approved, the
\* notification and the shipment are called only after the commit, and
\* release calls are made only from the reservation loop or the payment step,
\* never by a request that has committed.
C26_StepsInSagaOrder ==
    /\ [](\A r \in Requests :
            /\ payment_success[r] => Len(reservations[r]) = Len(req[r].items)
            /\ (pending[r] # NoTx \/ r \in wrote) => payment_success[r]
            /\ (notifyCalls[r] > 0 \/ shipmentCalls[r] > 0) => r \in wrote)
    /\ [][ \A r \in Requests :
              releaseCalls'[r] # releaseCalls[r]
              => pc[r] \in {"reserve", "pay"} /\ r \notin wrote
         ]_vars

\* C27: every request that has arrived ends, and it ends either with an order
\* it wrote (or the order its key already had) or aborted with no order
\* written, never both; an ended request stays ended.
C27_EveryRequestTerminates ==
    /\ \A r \in Requests : (pc[r] # "idle") ~> (pc[r] = "done")
    /\ [](\A r \in Requests :
            pc[r] = "done" =>
                /\ Created(r) => r \in wrote
                /\ Aborted(r) => r \notin wrote
                /\ Created(r) \/ Deduplicated(r) \/ Aborted(r))
    /\ [][\A r \in Requests : pc[r] = "done" => pc'[r] = "done" /\ result'[r] = result[r]]_vars

\* a request ended with its order although the notification and the
\* shipment call both ran into their timeout
C27_Witness ==
    /\ Created("r1")
    /\ "r1" \in wrote
    /\ notifyCalls["r1"] = 1 /\ shipmentCalls["r1"] = 1
    /\ dispatchFailed["r1"] = {"notify", "shipment"}
    /\ reservations["r1"] # <<>>

\* C28: a request makes at most one reserve call per item, passes the payment
\* step at most once, and makes at most one release call per reservation it
\* was granted: no two of its release calls name the same reservation.
C28_EachStepAtMostOnce ==
    /\ [](\A r \in Requests :
            /\ reserveCalls[r] <= Len(req[r].items)
            /\ \A i, j \in 1..Len(releaseCalls[r]) :
                  i # j => releaseCalls[r][i].idempotency_key
                               # releaseCalls[r][j].idempotency_key)
    /\ [][ \A r \in Requests :
              pc[r] \in {"insert", "commit", "notify", "shipment", "done"}
              => pc'[r] # "pay"
         ]_vars

\* C29: the lines of an order that was committed are backed by distinct
\* reservations: the reservation keys of the request's items are pairwise
\* distinct, also when two items name the same product.
C29_OneReservationPerLine ==
    \A r \in wrote :
        /\ Len(reservations[r]) = Len(ItemsOf(order_id[r]))
        /\ \A i, j \in 1..Len(reservations[r]) :
              i # j => reservations[r][i].idempotency_key
                           # reservations[r][j].idempotency_key

\* C30: a reservation that was granted to a request that aborted does not
\* stay RESERVED for ever: it becomes RELEASED or EXPIRED.
C30_LeakedReservationEnds ==
    \A r \in Requests : \A k \in ReservationKeys :
        (Aborted(r) /\ k \in grantedAt[r] /\ inventory.resv[k].status = "RESERVED")
        ~> (inventory.resv[k].status \in {"RELEASED", "EXPIRED"})

\* the request aborted with 503 after the inventory service had granted its
\* reservation, made no release call, and the reservation has expired
C30_Witness ==
    \E k \in grantedAt["r1"] :
        /\ Aborted("r1")
        /\ result["r1"].status = 503
        /\ releaseCalls["r1"] = <<>>
        /\ inventory.resv[k].status = "EXPIRED"

\* the reservations (key and order id) a list of release payloads names
ReleasedBy(payloads) ==
    {<<payloads[i].idempotency_key, payloads[i].order_id>> : i \in 1..Len(payloads)}

\* C31: every persisted order has a key, and a cancel_order that reaches its
\* release loop makes release calls for exactly the reservations (key and
\* order id) that place_order was granted when it created the order.
C31_CancelReleasesWhatWasReserved ==
    /\ [](\A o \in Orders : o.idempotency_key # None)
    /\ [][ \A o \in Orders : \A r \in wrote :
              ( /\ Cancelled(o)
                /\ order_id[r] = o.order_id
                /\ cancelResponse'.status \in {200, 500} )
              => ReleasedBy(cancelResponse'.releaseCalls)
                     = {<<k, order_id[r]>> : k \in grantedAt[r]}
         ]_vars

\* an order placed without a client key for two products was cancelled with
\* release calls for the two reservations its request was granted
C31_Witness ==
    /\ "r1" \in wrote
    /\ req["r1"].header = None
    /\ cancelResponse.status = 200
    /\ cancelResponse.order_id = order_id["r1"]
    /\ Cardinality(grantedAt["r1"]) = 2
    /\ ReleasedBy(cancelResponse.releaseCalls)
           = {<<k, order_id["r1"]>> : k \in grantedAt["r1"]}

\* C32: a place_order whose lookup finds a CANCELLED order with its key
\* returns that order, as CANCELLED and with the idempotent flag, makes no
\* reserve call and no payment and changes nothing; no key has a CANCELLED
\* order and another order, and a CANCELLED order stays as it is.
C32_CancelledKeyIsNotReused ==
    /\ [](\A o, c \in Orders :
            (o.idempotency_key = c.idempotency_key /\ c.order_status = "CANCELLED")
            => o = c)
    /\ [][ /\ \A r \in Requests :
                \A c \in OrdersWithKey(idempotency_key[r]) :
                    (pc[r] = "lookup" /\ pc'[r] # "lookup" /\ c.order_status = "CANCELLED")
                    => /\ pc'[r] = "done"
                       /\ result'[r] = [status |-> 200, idempotent |-> TRUE,
                                        order_id |-> c.order_id,
                                        detail |-> "Order already exists",
                                        order_status |-> "CANCELLED"]
                       /\ reserveCalls'[r] = 0
                       /\ ~payment_success'[r]
                       /\ UNCHANGED <<Orders, Order_Items, inventory>>
           /\ \A c \in Orders : c.order_status = "CANCELLED" => c \in Orders'
         ]_vars

\* a call with the key of a cancelled order got that order back as CANCELLED
C32_Witness ==
    \E r \in Requests : \E c \in Orders :
        /\ Deduplicated(r)
        /\ result[r].order_status = "CANCELLED"
        /\ result[r].order_id = c.order_id
        /\ c.idempotency_key = idempotency_key[r]
        /\ c.order_status = "CANCELLED"
        /\ reserveCalls[r] = 0

\* C33: two requests with different keys never take the same order id, and
\* no request fails after its payment was approved because its order id is
\* that of another order.
C33_OrderIdsAreDistinct ==
    \A r \in Requests :
        /\ \A q \in Requests \ {r} :
              ( /\ order_id[r] # 0 /\ order_id[q] # 0
                /\ idempotency_key[r] # idempotency_key[q] )
              => order_id[r] # order_id[q]
        /\ ~(Aborted(r) /\ payment_success[r]
             /\ result[r].detail = "Duplicate entry for id")

\* C34: get_order_by_id with an id that no order has answers 404 'Order not
\* found' (unless the database itself fails), and neither read changes the
\* tables, the inventory or a request.
C34_MissingOrderIsNotFound ==
    /\ [](( /\ readResponse.op = "get_order_by_id"
            /\ FindById(readResponse.order_id) = {}
            /\ readResponse.detail # "Database error" )
          => /\ readResponse.status = 404
             /\ readResponse.detail = "Order not found")
    /\ [][readResponse' # NoRead
          => UNCHANGED <<pc, locals, pending, result, calls, store, inventory>>]_vars

\* C35: when the demo workflow returns None after it has made reservations,
\* it has sent a release call for every reservation it made.
C35_DemoRollsBackOnEveryFailure ==
    (demo.returned = "None" /\ demo.reservations # <<>>)
    => \A i \in 1..Len(demo.reservations) :
          \E j \in 1..Len(demo.releaseCalls) :
              demo.releaseCalls[j].idempotency_key = demo.reservations[i].idempotency_key

\* the quantity of product p that is held out of the stock under the keys of
\* the demo workflow's order: by its own reservation and by that of place_order
HeldQuantity(k) ==
    IF inventory.resv[k].status \in {"RESERVED", "SHIPPED"}
    THEN inventory.resv[k].quantity ELSE 0
DemoReservedQuantity(p) ==
    HeldQuantity(ReservationKey(DemoReserveKey, p))
        + HeldQuantity(ReservationKey(DemoKey, p))

\* C36: when the demo workflow has run to its summary, the quantity of each
\* item it ordered was reserved once: the reservations of the workflow and
\* of the place_order it called together hold no more than the item's quantity.
C36_DemoReservesEachItemOnce ==
    demo.returned = "summary"
    => \A i \in 1..Len(demo.available_items) :
          DemoReservedQuantity(demo.available_items[i].product_id)
              <= demo.available_items[i].quantity

\* C37: get, update and delete of a shipment id that no row has answer 404
\* 'Shipment not found' (unless the database itself fails) and leave the
\* Shipments table as it is.
C37_MissingShipmentIsNotFound ==
    [][ ( /\ shipmentResponse' # shipmentResponse
          /\ shipmentResponse'.op \in
                 {"get_shipment_by_id", "update_shipment", "delete_shipment"}
          /\ \A row \in Shipments : row.shipment_id # shipmentResponse'.shipment_id
          /\ shipmentResponse'.detail # "Database error" )
        => /\ shipmentResponse'.status = 404
           /\ shipmentResponse'.detail = "Shipment not found"
           /\ UNCHANGED Shipments
      ]_vars
====
